---- MODULE Spec2Model ----
(***************************************************************************)
(* Model of the Intercooperative Network core:                             *)
(*   - the proof-of-cooperation consensus engine (PoCConsensus),           *)
(*   - the governance store (GovernanceSystem),                            *)
(*   - the transaction validator (TransactionValidator).                   *)
(* Reputations, thresholds and quorums are f64 in the source; here they    *)
(* are exact integers in hundredths (0.8 is 80), vote weights are exact    *)
(* integers in halves (1.0 is 2, 1.5 is 3).  The comparisons the source    *)
(* makes on quotients are made on cross-multiplied integers, and a         *)
(* quotient with a zero divisor follows IEEE-754 (0/0 is NaN, every        *)
(* comparison with NaN is false; x/0 is +inf for x > 0, -inf for x < 0).   *)
(***************************************************************************)
EXTENDS Integers, Sequences, FiniteSets, TLC

VARIABLES
    threshold,       \* PoCConsensus.threshold, hundredths
    quorum,          \* PoCConsensus.quorum, hundredths
    validators,      \* PoCConsensus.validators, in the map's iteration order
    pending_blocks,  \* PoCConsensus.pending_blocks
    blockchain,      \* PoCConsensus.blockchain
    poc_call,        \* the last engine call: operation, arguments, outcome
    now,             \* Utc::now(), in clock ticks
    proposals,       \* GovernanceSystem.proposals
    votes,           \* GovernanceSystem.votes
    gov_call,        \* the last governance call: operation, arguments, outcome
    lifecycle,       \* per proposal id: the status it was stored with, the time it was finalized at
    tv_chain,        \* Blockchain.chain of the ledger the validator reads
    tv_call,         \* the last validator call: transaction, clock, outcome
    rw_lock,         \* the RwLock of PoCConsensus.blockchain: "free", "read" or "write"
    running            \* the round in progress, step by step: position and locals

poc_vars == <<threshold, quorum, validators, pending_blocks, blockchain, poc_call>>
gov_vars == <<now, proposals, votes, gov_call, lifecycle>>
tv_vars == <<tv_chain, tv_call>>
lock_vars == <<rw_lock, running>>
vars == <<threshold, quorum, validators, pending_blocks, blockchain, poc_call,
          now, proposals, votes, gov_call, lifecycle, tv_chain, tv_call,
          rw_lock, running>>

\* What the operations of one component leave alone.
non_poc_vars == <<gov_vars, tv_vars, lock_vars>>
non_gov_vars == <<poc_vars, tv_vars, lock_vars>>
non_tv_vars == <<poc_vars, gov_vars, lock_vars>>
non_engine_vars == <<gov_vars, tv_vars>>

(***************************************************************************)
(* Bounds                                                                  *)
(***************************************************************************)
MaxPending == 2
MaxChain == 4
MaxTime == 2
MaxLedger == 2

Scale == 100

(***************************************************************************)
(* Blocks and transactions                                                 *)
(***************************************************************************)
NoHash == <<>>
BadHash == <<-1, <<>>, <<>>>>

\* Block::calculate_hash: a deterministic, collision-free digest of the
\* block's contents (every field but the hash itself).
CalculateHash(block) == <<block.index, block.previous_hash, block.transactions>>

Tx(from, to, amount) == [from |-> from, to |-> to, amount |-> amount]

TxPay == Tx("Alice", "Bob", 50)
TxZero == Tx("Alice", "Bob", 0)

TxLists == { <<>>, <<TxPay>>, <<TxZero>> }

MkBlock(index, previous_hash, transactions, hash) ==
    [index |-> index, transactions |-> transactions,
     previous_hash |-> previous_hash, hash |-> hash]

SealBlock(index, previous_hash, transactions) ==
    LET b == MkBlock(index, previous_hash, transactions, NoHash)
    IN  [b EXCEPT !.hash = CalculateHash(b)]

GenesisBlock == SealBlock(0, NoHash, <<>>)

Last(chain) == chain[Len(chain)]

\* The candidates a client may submit against the current chain: blocks
\* linked to the tip and sealed with their digest, and malformed ones (a
\* hash that is no digest, a stale link, index 0 with any link and hash).
CandidateBlocks ==
    LET tip == Last(blockchain).hash
    IN  { SealBlock(1, tip, t) : t \in TxLists }
        \cup { MkBlock(1, tip, <<>>, BadHash), SealBlock(1, NoHash, <<>>) }
        \cup { MkBlock(0, NoHash, t, BadHash) : t \in {<<>>, <<TxZero>>} }

(***************************************************************************)
(* PoCConsensus                                                            *)
(***************************************************************************)
ValidatorIds == {"validator1", "validator2"}
Reputations == {-10, 0, 70, 80, 150}
Configs == { <<66, 51>> }
\* Thresholds an engine may be built with, for rounds compared across them.
Thresholds == {50, 66, 100}

\* f64 NaN as an argument of the registry operations: a value apart from
\* every number, on which each of <, > is false.
NaN == -1000000
RegistryReputations == Reputations \cup {NaN}

\* a < b on f64
FLess(a, b) == a # NaN /\ b # NaN /\ a < b

NewOk(t, q) == ~(t <= 0 \/ t > Scale \/ q <= 0 \/ q > Scale)

Ids(vs) == { vs[i].id : i \in 1..Len(vs) }

InsertAt(s, k, e) == SubSeq(s, 1, k - 1) \o <<e>> \o SubSeq(s, k, Len(s))

RECURSIVE SumReputation(_, _)
SumReputation(vs, k) ==
    IF k = 0 THEN 0 ELSE SumReputation(vs, k - 1) + vs[k].reputation

ValidateTransaction(transaction) ==
    IF transaction.amount <= 0 THEN FALSE ELSE TRUE

ValidateBlock(block, chain) ==
    IF block.index = 0 THEN "true"
    ELSE IF chain = <<>> THEN "err"
    ELSE IF block.previous_hash # Last(chain).hash THEN "false"
    ELSE IF block.hash # CalculateHash(block) THEN "false"
    ELSE IF \E i \in 1..Len(block.transactions) :
                ~ValidateTransaction(block.transactions[i]) THEN "false"
    ELSE "true"

\* The block written over the tip instead of pushed after it.
AddBlockToChain_OverTip(chain, block) ==
    IF chain = <<>> THEN <<block>> ELSE [chain EXCEPT ![Len(chain)] = block]

AddBlockToChain(chain, block) == Append(chain, block)

QuorumReached(total_votes, quorum_reputation_scaled) ==
    total_votes * Scale >= quorum_reputation_scaled

\* The comparison with the threshold turned around.
ThresholdReached_Inverted(th, votes_for, total_votes) ==
    /\ total_votes # 0
    /\ votes_for * Scale <= th * total_votes

\* votes_for / total_votes >= self.threshold, th being self.threshold
ThresholdReached(th, votes_for, total_votes) ==
    /\ total_votes # 0
    /\ votes_for * Scale >= th * total_votes

\* One pass of the inner loop body for validator k on the candidate at
\* position cand of the pending list, th being self.threshold.
Poll(th, cand, block, k, acc) ==
    LET valid == ValidateBlock(block, acc.chain)
        rep == validators[k].reputation
        votes_for == acc.votes_for + (IF valid = "true" THEN rep ELSE 0)
        total_votes == acc.total_votes + rep
        tallied == [acc EXCEPT !.votes_for = votes_for, !.total_votes = total_votes]
        entry(kind) == [cand |-> cand, poll |-> k, kind |-> kind,
                        seen |-> total_votes, yes |-> votes_for]
    IN  IF valid = "err"
        THEN [acc EXCEPT !.result = "NoPreviousBlock"]
        ELSE IF QuorumReached(total_votes, SumReputation(validators, Len(validators)) * quorum)
        THEN IF ThresholdReached(th, votes_for, total_votes)
             THEN [tallied EXCEPT !.chain = AddBlockToChain(@, block),
                                  !.log = Append(@, entry("append"))]
             ELSE [tallied EXCEPT !.result = "Rejected",
                                  !.log = Append(@, entry("reject"))]
        ELSE tallied

RECURSIVE PollFrom(_, _, _, _, _)
PollFrom(th, cand, block, k, acc) ==
    IF k > Len(validators) \/ acc.result # "Ok" THEN acc
    ELSE PollFrom(th, cand, block, k + 1, Poll(th, cand, block, k, acc))

RECURSIVE RoundFrom(_, _, _, _)
RoundFrom(th, pending, cand, st) ==
    IF cand > Len(pending) \/ st.result # "Ok" THEN st
    ELSE LET acc == PollFrom(th, cand, pending[cand], 1,
                        [chain |-> st.chain, votes_for |-> 0, total_votes |-> 0,
                         result |-> "Ok", log |-> st.log])
         IN  RoundFrom(th, pending, cand + 1,
                [chain |-> acc.chain, result |-> acc.result, log |-> acc.log,
                 blocks_to_retain |->
                    IF acc.result = "Ok"
                    THEN Append(st.blocks_to_retain, pending[cand])
                    ELSE st.blocks_to_retain])

Contains(s, e) == \E i \in 1..Len(s) : s[i] = e

\* The filter of the retain inverted.
Retain_Inverted(pending, blocks_to_retain) ==
    SelectSeq(pending, LAMBDA b : ~Contains(blocks_to_retain, b))

Retain(pending, blocks_to_retain) ==
    SelectSeq(pending, LAMBDA b : Contains(blocks_to_retain, b))

TryReachConsensus(th, pending, chain) ==
    LET st == RoundFrom(th, pending, 1,
                [chain |-> chain, result |-> "Ok", log |-> <<>>,
                 blocks_to_retain |-> <<>>])
    IN  [chain |-> st.chain, result |-> st.result, log |-> st.log,
         pending |-> IF st.result = "Ok"
                     THEN Retain(pending, st.blocks_to_retain)
                     ELSE pending]

NoCall == [op |-> "none", result |-> "Ok", block |-> GenesisBlock,
           chain_before |-> <<>>, pending_before |-> <<>>, log |-> <<>>]

RegistryCall(op, result) ==
    [op |-> op, result |-> result, block |-> GenesisBlock,
     chain_before |-> blockchain, pending_before |-> pending_blocks, log |-> <<>>]

AddValidator(id, initial_reputation) ==
    /\ IF FLess(initial_reputation, 0) \/ FLess(Scale, initial_reputation)
       THEN /\ validators' = validators
            /\ poc_call' = RegistryCall("add_validator", "InvalidReputation")
       ELSE /\ \/ /\ id \in Ids(validators)
                  /\ validators' =
                        [k \in 1..Len(validators) |->
                            IF validators[k].id = id
                            THEN [id |-> id, reputation |-> initial_reputation]
                            ELSE validators[k]]
               \/ /\ id \notin Ids(validators)
                  /\ \E k \in 1..(Len(validators) + 1) :
                        validators' = InsertAt(validators, k,
                                         [id |-> id, reputation |-> initial_reputation])
            /\ poc_call' = RegistryCall("add_validator", "Ok")
    /\ UNCHANGED <<threshold, quorum, pending_blocks, blockchain>>
    /\ UNCHANGED non_poc_vars

RemoveValidator(id) ==
    /\ validators' = SelectSeq(validators, LAMBDA v : v.id # id)
    /\ poc_call' = RegistryCall("remove_validator", "Ok")
    /\ UNCHANGED <<threshold, quorum, pending_blocks, blockchain>>
    /\ UNCHANGED non_poc_vars

UpdateValidatorReputation(id, new_reputation) ==
    /\ IF FLess(new_reputation, 0) \/ FLess(Scale, new_reputation)
       THEN /\ validators' = validators
            /\ poc_call' = RegistryCall("update_validator_reputation", "InvalidReputation")
       ELSE IF id \in Ids(validators)
       THEN /\ validators' =
                  [k \in 1..Len(validators) |->
                      IF validators[k].id = id
                      THEN [validators[k] EXCEPT !.reputation = new_reputation]
                      ELSE validators[k]]
            /\ poc_call' = RegistryCall("update_validator_reputation", "Ok")
       ELSE /\ validators' = validators
            /\ poc_call' = RegistryCall("update_validator_reputation", "ValidatorNotFound")
    /\ UNCHANGED <<threshold, quorum, pending_blocks, blockchain>>
    /\ UNCHANGED non_poc_vars

ProcessNewBlock(block) ==
    /\ Len(pending_blocks) < MaxPending
    /\ Len(blockchain) < MaxChain
    /\ LET pending == Append(pending_blocks, block)
           round == TryReachConsensus(threshold, pending, blockchain)
       IN  /\ pending_blocks' = round.pending
           /\ blockchain' = round.chain
           /\ poc_call' = [op |-> "process_new_block", result |-> round.result,
                           block |-> block, chain_before |-> blockchain,
                           pending_before |-> pending_blocks, log |-> round.log]
    /\ UNCHANGED <<threshold, quorum, validators>>
    /\ UNCHANGED non_poc_vars

(***************************************************************************)
(* The round of process_new_block step by step, with the lock of the chain *)
(* Each step ends where the engine takes or drops the lock or decides.     *)
(***************************************************************************)
RoundIdle ==
    [pc |-> "idle", block |-> GenesisBlock, chain_before |-> <<>>,
     pending_before |-> <<>>, cand |-> 0, k |-> 0, votes_for |-> 0,
     total_votes |-> 0, valid |-> "true", blocks_to_retain |-> <<>>, log |-> <<>>]

\* The loop heads of lines 70 and 74: from position (cand, k) to the next poll
\* to make, pushing every candidate whose inner loop ended onto
\* blocks_to_retain, or to the end of the outer loop.
RECURSIVE LoopHead(_, _)
LoopHead(r, pending) ==
    IF r.cand > Len(pending) THEN [r EXCEPT !.pc = "finish"]
    ELSE IF r.k > Len(validators)
    THEN LoopHead([r EXCEPT !.cand = @ + 1, !.k = 1, !.votes_for = 0,
                            !.total_votes = 0,
                            !.blocks_to_retain = Append(@, pending[r.cand])],
                  pending)
    ELSE [r EXCEPT !.pc = "poll"]

\* The round over: the call returns.
Return(result, log) ==
    /\ running' = RoundIdle
    /\ poc_call' = [op |-> "process_new_block", result |-> result,
                    block |-> running.block, chain_before |-> running.chain_before,
                    pending_before |-> running.pending_before, log |-> log]

\* process_new_block up to the first poll: the push and the sums.
Submit(block) ==
    /\ running.pc = "idle"
    /\ Len(pending_blocks) < MaxPending
    /\ Len(blockchain) < MaxChain
    /\ pending_blocks' = Append(pending_blocks, block)
    /\ running' = LoopHead([RoundIdle EXCEPT !.block = block,
                                           !.chain_before = blockchain,
                                           !.pending_before = pending_blocks,
                                           !.cand = 1, !.k = 1],
                         Append(pending_blocks, block))
    /\ UNCHANGED <<threshold, quorum, validators, blockchain, poc_call, rw_lock>>
    /\ UNCHANGED non_engine_vars

\* validate_block up to the read lock: index 0 returns at once, any other
\* block takes the read lock.
BeginValidate ==
    /\ running.pc = "poll"
    /\ IF pending_blocks[running.cand].index = 0
       THEN /\ running' = [running EXCEPT !.pc = "tally", !.valid = "true"]
            /\ UNCHANGED rw_lock
       ELSE /\ rw_lock = "free"
            /\ rw_lock' = "read"
            /\ running' = [running EXCEPT !.pc = "reading"]
    /\ UNCHANGED poc_vars
    /\ UNCHANGED non_engine_vars

\* validate_block under the read lock: the tip is read, the block checked,
\* and the guard dropped on return.
ReadTip ==
    /\ running.pc = "reading"
    /\ rw_lock' = "free"
    /\ LET valid == ValidateBlock(pending_blocks[running.cand], blockchain)
       IN  IF valid = "err"
           THEN /\ Return("NoPreviousBlock", running.log)
                /\ UNCHANGED <<threshold, quorum, validators, pending_blocks, blockchain>>
           ELSE /\ running' = [running EXCEPT !.pc = "tally", !.valid = valid]
                /\ UNCHANGED poc_vars
    /\ UNCHANGED non_engine_vars

\* Lines 75-86 after validate_block returned: the sums and the decision.
Decide ==
    /\ running.pc = "tally"
    /\ LET rep == validators[running.k].reputation
           votes_for == running.votes_for + (IF running.valid = "true" THEN rep ELSE 0)
           total_votes == running.total_votes + rep
           tallied == [running EXCEPT !.votes_for = votes_for,
                                    !.total_votes = total_votes]
           entry(kind) == [cand |-> running.cand, poll |-> running.k, kind |-> kind,
                           seen |-> total_votes, yes |-> votes_for]
       IN  IF QuorumReached(total_votes,
                            SumReputation(validators, Len(validators)) * quorum)
           THEN IF ThresholdReached(threshold, votes_for, total_votes)
                THEN /\ running' = [tallied EXCEPT !.pc = "append",
                                                 !.log = Append(@, entry("append"))]
                     /\ UNCHANGED poc_call
                ELSE Return("Rejected", Append(running.log, entry("reject")))
           ELSE /\ running' = LoopHead([tallied EXCEPT !.k = @ + 1], pending_blocks)
                /\ UNCHANGED poc_call
    /\ UNCHANGED <<threshold, quorum, validators, pending_blocks, blockchain, rw_lock>>
    /\ UNCHANGED non_engine_vars

\* add_block_to_chain: the write lock taken and the block pushed.
WriteChain ==
    /\ running.pc = "append"
    /\ rw_lock = "free"
    /\ rw_lock' = "write"
    /\ blockchain' = AddBlockToChain(blockchain, pending_blocks[running.cand])
    /\ running' = [running EXCEPT !.pc = "appended"]
    /\ UNCHANGED <<threshold, quorum, validators, pending_blocks, poc_call>>
    /\ UNCHANGED non_engine_vars

\* add_block_to_chain returns: the write guard dropped, the inner loop goes on.
ReleaseWrite ==
    /\ running.pc = "appended"
    /\ rw_lock' = "free"
    /\ running' = LoopHead([running EXCEPT !.k = @ + 1], pending_blocks)
    /\ UNCHANGED poc_vars
    /\ UNCHANGED non_engine_vars

\* Lines 91-93: the retain and Ok.
Finish ==
    /\ running.pc = "finish"
    /\ pending_blocks' = Retain(pending_blocks, running.blocks_to_retain)
    /\ Return("Ok", running.log)
    /\ UNCHANGED <<threshold, quorum, validators, blockchain, rw_lock>>
    /\ UNCHANGED non_engine_vars

LockInit ==
    /\ rw_lock = "free"
    /\ running = RoundIdle

\* The engine is borrowed mutably by the running call: the registry changes
\* between rounds only.
LockNext ==
    \/ /\ running.pc = "idle"
       /\ \/ \E id \in ValidatorIds, r \in Reputations : AddValidator(id, r)
          \/ \E id \in ValidatorIds : RemoveValidator(id)
          \/ \E id \in ValidatorIds, r \in Reputations :
                  UpdateValidatorReputation(id, r)
    \/ \E block \in CandidateBlocks : Submit(block)
    \/ BeginValidate
    \/ ReadTip
    \/ Decide
    \/ WriteChain
    \/ ReleaseWrite
    \/ Finish

(***************************************************************************)
(* GovernanceSystem                                                        *)
(* A proposal is modelled by the fields the store reads: id,               *)
(* voting_ends_at, status, required_quorum; a vote by voter, in_favor and  *)
(* weight.  Weights and required_quorum are in halves (1.0 is 2).          *)
(***************************************************************************)
ProposalIds == {"prop1", "prop2"}
Voters == {"Alice", "Bob"}
Statuses == {"Active", "Passed", "Rejected", "Executed"}
Weights == {-2, 0, 2, 3}
Quorums == {0, 6}

\* The proposals a caller hands to create_proposal: built by Proposal::new
\* (status Active) or, as the fields are public, with the window and the
\* status set by the caller.  "prop2" is never created: calls that name it
\* name an absent proposal.
StoredIds == {"prop1"}
\* Proposals open for votes and for finalization at once, with a required
\* quorum below, at and above zero.
AllQuorums == {-2, 0, 6}
OpenProposals ==
    [id : StoredIds, voting_ends_at : {0}, status : {"Active"},
     required_quorum : AllQuorums]

NewProposals ==
    [id : StoredIds, voting_ends_at : 0..MaxTime, status : {"Active", "Passed"},
     required_quorum : Quorums]

RECURSIVE SumWeights(_, _, _)
SumWeights(vs, k, only_in_favor) ==
    IF k = 0 THEN 0
    ELSE SumWeights(vs, k - 1, only_in_favor)
            + (IF only_in_favor => vs[k].in_favor THEN vs[k].weight ELSE 0)

TotalVotes(vs) == SumWeights(vs, Len(vs), FALSE)
VotesInFavor(vs) == SumWeights(vs, Len(vs), TRUE)

\* A zero total taken as full agreement instead of dividing by it.
MajorityInFavor_ZeroPasses(votes_in_favor, total_votes) ==
    IF total_votes > 0 THEN 2 * votes_in_favor > total_votes
    ELSE IF total_votes < 0 THEN 2 * votes_in_favor < total_votes
    ELSE TRUE

\* A tie counted as a majority.
MajorityInFavor_Tie(votes_in_favor, total_votes) ==
    IF total_votes > 0 THEN 2 * votes_in_favor >= total_votes
    ELSE IF total_votes < 0 THEN 2 * votes_in_favor =< total_votes
    ELSE votes_in_favor > 0

\* votes_in_favor / total_votes > 0.5 on f64
MajorityInFavor(votes_in_favor, total_votes) ==
    IF total_votes > 0 THEN 2 * votes_in_favor > total_votes
    ELSE IF total_votes < 0 THEN 2 * votes_in_favor < total_votes
    ELSE votes_in_favor > 0

QuorumMissed(total_votes, required_quorum) == total_votes < required_quorum

Tally(vs, required_quorum) ==
    LET total_votes == TotalVotes(vs)
        votes_in_favor == VotesInFavor(vs)
    IN  IF QuorumMissed(total_votes, required_quorum) THEN "Rejected"
        ELSE IF MajorityInFavor(votes_in_favor, total_votes) THEN "Passed"
        ELSE "Rejected"

\* The window closed one tick early.
VotingEnded_Inclusive(t, voting_ends_at) == t >= voting_ends_at
VotingEnded(t, voting_ends_at) == t > voting_ends_at

\* The window check of finalize_proposal left out.
VotingNotEnded_Skipped(t, voting_ends_at) == FALSE
VotingNotEnded(t, voting_ends_at) == t < voting_ends_at

\* Only the latest vote compared with the voter.
HasVoted_LastOnly(vs, voter) == vs # <<>> /\ vs[Len(vs)].voter = voter
HasVoted(vs, voter) == \E i \in 1..Len(vs) : vs[i].voter = voter

\* Execution refused only to what is already executed.
CanExecute_Unexecuted(status) == status # "Executed"
CanExecute(status) == status = "Passed"

StatusOf(proposal_id) ==
    IF proposal_id \in DOMAIN proposals THEN proposals[proposal_id].status ELSE "Absent"

GovCall(op, proposal_id, result) ==
    [op |-> op, proposal_id |-> proposal_id, result |-> result,
     status_before |-> StatusOf(proposal_id), voter |-> ""]

\* The proposal stored before the duplicate check is made.
CreateProposal_InsertFirst(proposal) ==
    /\ proposals' = [p \in DOMAIN proposals \cup {proposal.id} |->
                        IF p = proposal.id THEN proposal ELSE proposals[p]]
    /\ votes' = [p \in DOMAIN votes \cup {proposal.id} |->
                        IF p = proposal.id THEN <<>> ELSE votes[p]]
    /\ IF proposal.id \in DOMAIN proposals
       THEN /\ gov_call' = GovCall("create_proposal", proposal.id, "ProposalIdExists")
            /\ lifecycle' = lifecycle
       ELSE /\ lifecycle' = lifecycle @@
                    (proposal.id :> [created_as |-> proposal.status, finalized_at |-> <<>>])
            /\ gov_call' = GovCall("create_proposal", proposal.id, "Ok")
    /\ UNCHANGED now
    /\ UNCHANGED non_gov_vars

CreateProposal(proposal) ==
    /\ IF proposal.id \in DOMAIN proposals
       THEN /\ gov_call' = GovCall("create_proposal", proposal.id, "ProposalIdExists")
            /\ UNCHANGED <<proposals, votes, lifecycle>>
       ELSE /\ proposals' = proposals @@ (proposal.id :> proposal)
            /\ votes' = votes @@ (proposal.id :> <<>>)
            /\ lifecycle' = lifecycle @@
                    (proposal.id :> [created_as |-> proposal.status, finalized_at |-> <<>>])
            /\ gov_call' = GovCall("create_proposal", proposal.id, "Ok")
    /\ UNCHANGED now
    /\ UNCHANGED non_gov_vars

VoteOnProposal(proposal_id, voter, in_favor, weight) ==
    LET call(result) ==
            [GovCall("vote_on_proposal", proposal_id, result) EXCEPT !.voter = voter]
    IN  /\ IF proposal_id \notin DOMAIN proposals
           THEN /\ gov_call' = call("ProposalNotFound")
                /\ votes' = votes
           ELSE IF proposals[proposal_id].status # "Active"
           THEN /\ gov_call' = call("ProposalNotActive")
                /\ votes' = votes
           ELSE IF VotingEnded(now, proposals[proposal_id].voting_ends_at)
           THEN /\ gov_call' = call("VotingEnded")
                /\ votes' = votes
           ELSE IF proposal_id \notin DOMAIN votes
           THEN /\ gov_call' = call("VotesNotFound")
                /\ votes' = votes
           ELSE IF HasVoted(votes[proposal_id], voter)
           THEN /\ gov_call' = call("AlreadyVoted")
                /\ votes' = votes
           ELSE /\ votes' = [votes EXCEPT ![proposal_id] =
                                Append(@, [voter |-> voter, in_favor |-> in_favor,
                                           weight |-> weight])]
                /\ gov_call' = call("Ok")
        /\ UNCHANGED <<now, proposals, lifecycle>>
        /\ UNCHANGED non_gov_vars

FinalizeProposal(proposal_id) ==
    /\ IF proposal_id \notin DOMAIN proposals
       THEN /\ gov_call' = GovCall("finalize_proposal", proposal_id, "ProposalNotFound")
            /\ UNCHANGED <<proposals, lifecycle>>
       ELSE IF proposals[proposal_id].status # "Active"
       THEN /\ gov_call' = GovCall("finalize_proposal", proposal_id, "ProposalNotActive")
            /\ UNCHANGED <<proposals, lifecycle>>
       ELSE IF VotingNotEnded(now, proposals[proposal_id].voting_ends_at)
       THEN /\ gov_call' = GovCall("finalize_proposal", proposal_id, "VotingNotEnded")
            /\ UNCHANGED <<proposals, lifecycle>>
       ELSE IF proposal_id \notin DOMAIN votes
       THEN /\ gov_call' = GovCall("finalize_proposal", proposal_id, "VotesNotFound")
            /\ UNCHANGED <<proposals, lifecycle>>
       ELSE LET status == Tally(votes[proposal_id],
                                proposals[proposal_id].required_quorum)
            IN  /\ proposals' = [proposals EXCEPT ![proposal_id].status = status]
                /\ lifecycle' = [lifecycle EXCEPT ![proposal_id].finalized_at = <<now>>]
                /\ gov_call' = GovCall("finalize_proposal", proposal_id, status)
    /\ UNCHANGED <<now, votes>>
    /\ UNCHANGED non_gov_vars

MarkAsExecuted(proposal_id) ==
    /\ IF proposal_id \notin DOMAIN proposals
       THEN /\ gov_call' = GovCall("mark_as_executed", proposal_id, "ProposalNotFound")
            /\ proposals' = proposals
       ELSE IF ~CanExecute(proposals[proposal_id].status)
       THEN /\ gov_call' = GovCall("mark_as_executed", proposal_id, "ProposalNotPassed")
            /\ proposals' = proposals
       ELSE /\ proposals' = [proposals EXCEPT ![proposal_id].status = "Executed"]
            /\ gov_call' = GovCall("mark_as_executed", proposal_id, "Ok")
    /\ UNCHANGED <<now, votes, lifecycle>>
    /\ UNCHANGED non_gov_vars

\* The wall clock read by Utc::now() advances between calls.
Tick ==
    /\ now < MaxTime
    /\ now' = now + 1
    /\ gov_call' = GovCall("tick", "", "Ok")
    /\ UNCHANGED <<proposals, votes, lifecycle>>
    /\ UNCHANGED non_gov_vars

(***************************************************************************)
(* TransactionValidator                                                    *)
(* A transaction is modelled by from, to, amount, fee, timestamp (seconds) *)
(* and its signature, which fixes what Transaction::verify answers:        *)
(* Ok(true) on "valid", Ok(false) on "invalid", Err on "malformed".  One   *)
(* currency.  The ledger is a sequence of blocks of transactions.          *)
(***************************************************************************)
Hour == 3600

TvTx(from, to, amount, fee, timestamp, signature) ==
    [from |-> from, to |-> to, amount |-> amount, fee |-> fee,
     timestamp |-> timestamp, signature |-> signature]

\* Utc::now().timestamp() at the call, and the timestamps around its window.
Clock == {7200, 7201}
Timestamps == {3599, 3600, 3601, 7200, 7201, 7202}
Signatures == {"valid", "invalid", "malformed"}

Mint == TvTx("Genesis", "Alice", 100, 0, 7200, "valid")

Transfers ==
    { TvTx("Alice", "Bob", amount, fee, timestamp, signature) :
        amount \in {0, 50, 150}, fee \in {0, 60},
        timestamp \in Timestamps, signature \in Signatures }

\* What the ledger is built from: the mint the tests start with, a transfer
\* and a transfer of amount 0.
Committable ==
    { Mint, TvTx("Alice", "Bob", 50, 0, 7200, "valid"),
      TvTx("Alice", "Bob", 0, 0, 7200, "valid") }

LedgerBlock(transactions) == [transactions |-> transactions]

Verify(transaction) ==
    IF transaction.signature = "valid" THEN "true"
    ELSE IF transaction.signature = "invalid" THEN "false"
    ELSE "err"

GetFee(transaction) == transaction.fee

\* Credits minus debits and fees of the account over blocks 1..k.
RECURSIVE BalanceOver(_, _, _)
BalanceOver(chain, k, account) ==
    IF k = 0 THEN 0
    ELSE LET txs == chain[k].transactions
             delta(tx) == (IF tx.to = account THEN tx.amount ELSE 0)
                          - (IF tx.from = account THEN tx.amount + tx.fee ELSE 0)
             sum[i \in 0..Len(txs)] == IF i = 0 THEN 0 ELSE sum[i - 1] + delta(txs[i])
         IN  BalanceOver(chain, k - 1, account) + sum[Len(txs)]

GetBalance(chain, account) == BalanceOver(chain, Len(chain), account)

IsDoubleSpend(transaction, chain) ==
    \E b \in 1..Len(chain) : \E i \in 1..Len(chain[b].transactions) :
        chain[b].transactions[i] = transaction

ValidateCurrencyAndAmount(transaction) == transaction.amount > 0

CheckSufficientBalance(transaction, chain) ==
    GetBalance(chain, transaction.from) >= transaction.amount + GetFee(transaction)

ValidateSignature(transaction) == Verify(transaction)

\* The past bound of the window taken exclusive.
ValidateTimestamp_Exclusive(transaction, current_time) ==
    /\ transaction.timestamp <= current_time
    /\ transaction.timestamp > current_time - Hour

ValidateTimestamp(transaction, current_time) ==
    /\ transaction.timestamp <= current_time
    /\ transaction.timestamp >= current_time - Hour

TvOk == [kind |-> "Ok", message |-> ""]
TvErr(kind, message) == [kind |-> kind, message |-> message]

TvValidateTransaction(transaction, chain, current_time) ==
    IF IsDoubleSpend(transaction, chain)
    THEN TvErr("Blockchain", "Double spend detected")
    ELSE IF ~ValidateCurrencyAndAmount(transaction)
    THEN TvErr("Currency", "Invalid currency or amount")
    ELSE IF ~CheckSufficientBalance(transaction, chain)
    THEN TvErr("Currency", "Insufficient balance")
    ELSE IF ValidateSignature(transaction) = "err"
    THEN TvErr("Identity", "Signature verification failed")
    ELSE IF ValidateSignature(transaction) = "false"
    THEN TvErr("Identity", "Invalid signature")
    ELSE IF ~ValidateTimestamp(transaction, current_time)
    THEN TvErr("Blockchain", "Transaction timestamp is not valid")
    ELSE TvOk

TvCall(op, transaction, current_time, result) ==
    [op |-> op, transaction |-> transaction, current_time |-> current_time,
     result |-> result, chain_before |-> tv_chain]

\* Blockchain::add_transaction followed by Blockchain::create_block: the
\* transaction is committed in a block of its own.
CommitTransaction(transaction) ==
    /\ Len(tv_chain) < MaxLedger
    /\ tv_chain' = Append(tv_chain, LedgerBlock(<<transaction>>))
    /\ tv_call' = TvCall("create_block", transaction, 0, TvOk)
    /\ UNCHANGED non_tv_vars

ValidateCall(transaction, current_time) ==
    /\ tv_call' = TvCall("validate_transaction", transaction, current_time,
                         TvValidateTransaction(transaction, tv_chain, current_time))
    /\ UNCHANGED tv_chain
    /\ UNCHANGED non_tv_vars

TvInit ==
    /\ tv_chain = <<>>
    /\ tv_call = [op |-> "none", transaction |-> Mint, current_time |-> 0,
                  result |-> TvOk, chain_before |-> <<>>]

TvNext ==
    \/ \E transaction \in Committable : CommitTransaction(transaction)
    \/ \E transaction \in Transfers \cup {Mint}, current_time \in Clock :
            ValidateCall(transaction, current_time)

(***************************************************************************)
(* Initial state and specifications                                        *)
(***************************************************************************)
GovInit ==
    /\ now = 0
    /\ proposals = <<>>
    /\ votes = <<>>
    /\ gov_call = GovCall("none", "", "Ok")
    /\ lifecycle = <<>>

PoCInit ==
    /\ \E c \in Configs : NewOk(c[1], c[2]) /\ threshold = c[1] /\ quorum = c[2]
    /\ validators = <<>>
    /\ pending_blocks = <<>>
    /\ blockchain = <<GenesisBlock>>
    /\ poc_call = NoCall

Init == PoCInit /\ GovInit /\ TvInit /\ LockInit

PoCNext ==
    \/ \E id \in ValidatorIds, r \in Reputations : AddValidator(id, r)
    \/ \E id \in ValidatorIds : RemoveValidator(id)
    \/ \E id \in ValidatorIds, r \in Reputations : UpdateValidatorReputation(id, r)
    \/ \E block \in CandidateBlocks : ProcessNewBlock(block)

PoCSpec == Init /\ [][PoCNext]_vars

\* The registry operations alone, on every class of f64 argument.
RegistryNext ==
    \/ \E id \in ValidatorIds, r \in RegistryReputations : AddValidator(id, r)
    \/ \E id \in ValidatorIds : RemoveValidator(id)
    \/ \E id \in ValidatorIds, r \in RegistryReputations :
            UpdateValidatorReputation(id, r)

RegistrySpec == Init /\ [][RegistryNext]_vars

GovNext ==
    \/ \E proposal \in NewProposals : CreateProposal(proposal)
    \/ \E id \in ProposalIds, voter \in Voters, in_favor \in BOOLEAN, weight \in Weights :
            VoteOnProposal(id, voter, in_favor, weight)
    \/ \E id \in ProposalIds : FinalizeProposal(id)
    \/ \E id \in ProposalIds : MarkAsExecuted(id)
    \/ Tick

GovSpec == Init /\ [][GovNext]_vars

\* The governance store on proposals of every sign of required_quorum.
QuorumNext ==
    \/ \E proposal \in OpenProposals : CreateProposal(proposal)
    \/ \E id \in StoredIds, voter \in Voters, in_favor \in BOOLEAN, weight \in Weights :
            VoteOnProposal(id, voter, in_favor, weight)
    \/ \E id \in StoredIds : FinalizeProposal(id)
    \/ \E id \in StoredIds : MarkAsExecuted(id)
    \/ Tick

QuorumSpec == Init /\ [][QuorumNext]_vars

TvSpec == Init /\ [][TvNext]_vars

LockSpec == Init /\ [][LockNext]_vars

(***************************************************************************)
(* Claims on the consensus engine                                          *)
(***************************************************************************)
IsRound == poc_call.op = "process_new_block"

\* All transactions of the committed chain, in chain order.
RECURSIVE ChainTransactions(_, _)
ChainTransactions(chain, k) ==
    IF k = 0 THEN <<>>
    ELSE ChainTransactions(chain, k - 1) \o chain[k].transactions

\* C1: every committed block after the first links to its predecessor's hash
\* and carries the digest of its own contents.
C1_ChainLinked ==
    \A i \in 2..Len(blockchain) :
        /\ blockchain[i].previous_hash = blockchain[i - 1].hash
        /\ blockchain[i].hash = CalculateHash(blockchain[i])

\* C2: in a round every candidate is decided at most once (one append or one
\* rejection), at the first polled validator whose accumulated reputation
\* reaches the quorum; later validators decide nothing more.
C2_DecidedOnce ==
    IsRound =>
        \A i, j \in 1..Len(poc_call.log) :
            poc_call.log[i].cand = poc_call.log[j].cand => i = j

\* C3: a call that reports "Block rejected by consensus" leaves the committed
\* chain as it was before the call.
C3_RejectedLeavesChain ==
    (IsRound /\ poc_call.result = "Rejected") =>
        blockchain = poc_call.chain_before

\* C4: on a chain holding only genesis, with nothing else pending and a registry
\* of validators of positive reputation, a well-formed block linked to the tip
\* that every validator accepts is committed: the call returns Ok and the chain has
\* length 2, whatever the polling order.
C4_AllAcceptCommits ==
    ( /\ IsRound
      /\ poc_call.chain_before = <<GenesisBlock>>
      /\ poc_call.pending_before = <<>>
      /\ poc_call.block.index # 0
      /\ ValidateBlock(poc_call.block, poc_call.chain_before) = "true"
      /\ validators # <<>>
      /\ \A k \in 1..Len(validators) : validators[k].reputation > 0 )
    => (poc_call.result = "Ok" /\ Len(blockchain) = 2)

\* C5: no transaction occurs twice in the committed chain, neither within one
\* block nor in two committed blocks.
C5_NoDuplicateTransaction ==
    LET txs == ChainTransactions(blockchain, Len(blockchain))
    IN  \A i, j \in 1..Len(txs) : txs[i] = txs[j] => i = j

\* The pending list a round works on: what was pending plus the new block.
RoundPending == Append(poc_call.pending_before, poc_call.block)

\* C13: after process_new_block returns, no candidate the round decided
\* (appended or rejected) is still in pending_blocks.
C13_DecidedLeavesPending ==
    IsRound =>
        \A i \in 1..Len(poc_call.log) :
            ~Contains(pending_blocks, RoundPending[poc_call.log[i].cand])

\* C14: with an empty registry process_new_block is a no-op round: it returns
\* Ok, appends nothing, and the submitted block (with everything that was
\* pending) stays in pending_blocks, whatever the block's index and hashes.
C14_EmptyRegistryNoOp ==
    (IsRound /\ validators = <<>>) =>
        /\ poc_call.result = "Ok"
        /\ blockchain = poc_call.chain_before
        /\ poc_call.log = <<>>
        /\ pending_blocks = RoundPending

C14_Witness ==
    /\ IsRound
    /\ validators = <<>>
    /\ poc_call.block.index = 0
    /\ poc_call.block.hash = BadHash
    /\ Len(pending_blocks) = 2
    /\ pending_blocks[1].index = 1

\* C15 (its particular case): a round on a registry made only of validators of
\* reputation 0 neither appends nor rejects: it returns Ok and leaves the chain
\* as it was, as the round without these validators does.
C15_ZeroReputationNoOp ==
    ( /\ IsRound
      /\ validators # <<>>
      /\ \A k \in 1..Len(validators) : validators[k].reputation = 0 )
    => (poc_call.result = "Ok" /\ blockchain = poc_call.chain_before)

\* The round on the given pending list and chain, run with threshold th,
\* appends the candidate at position cand.
AppendsAt(th, pending, chain, cand) ==
    LET round == TryReachConsensus(th, pending, chain)
    IN  \E i \in 1..Len(round.log) :
            round.log[i].cand = cand /\ round.log[i].kind = "append"

\* C16: for every round the engine ran (its chain, registry in polling order,
\* quorum, pending list and candidate fixed): if the round run with threshold
\* t does not append the candidate, the round run with a threshold t2 > t does
\* not append it either.
C16_ThresholdMonotone ==
    IsRound =>
        LET appending == { t \in Thresholds :
                            /\ NewOk(t, quorum)
                            /\ AppendsAt(t, RoundPending, poc_call.chain_before,
                                         Len(RoundPending)) }
        IN  \A t2 \in appending : \A t \in Thresholds :
                (NewOk(t, quorum) /\ t < t2) => t \in appending

\* A round of the engine that rejected a block linked to the tip, which a
\* higher threshold would not have appended either.
C16_Witness ==
    /\ IsRound
    /\ poc_call.result = "Rejected"
    /\ poc_call.block.previous_hash = Last(poc_call.chain_before).hash
    /\ \E k \in 1..Len(validators) : validators[k].reputation > 0
    /\ ~AppendsAt(threshold, RoundPending, poc_call.chain_before, Len(RoundPending))
    /\ \E t2 \in Thresholds :
          /\ t2 > threshold
          /\ ~AppendsAt(t2, RoundPending, poc_call.chain_before, Len(RoundPending))

\* C18: after any sequence of add_validator, remove_validator and
\* update_validator_reputation calls every validator of the registry has a
\* reputation in [0,1].
C18_ReputationInRange ==
    \A k \in 1..Len(validators) :
        /\ validators[k].reputation # NaN
        /\ 0 <= validators[k].reputation
        /\ validators[k].reputation <= Scale

Occurrences(s, e) == { i \in 1..Len(s) : s[i] = e }

\* C20: a candidate block that was submitted once (it is once in the list of
\* submitted blocks, which pending_blocks is as long as nothing leaves it) is
\* at most once in the committed chain.
C20_AppendedAtMostOnce ==
    \A i \in 1..Len(pending_blocks) :
        Cardinality(Occurrences(pending_blocks, pending_blocks[i])) = 1
            => Cardinality(Occurrences(blockchain, pending_blocks[i])) <= 1

\* C19: while a round is between its read of the chain tip for a candidate and
\* the append of that candidate, the engine holds the writer lock of the chain.
C19_WriterLockHeld ==
    ( /\ running.pc \in {"tally", "append"}
      /\ pending_blocks[running.cand].index # 0 )
    => rw_lock = "write"

\* C21: with at least one validator of positive reputation, a process_new_block
\* of a block of index > 0 that links to the current tip, carries its digest
\* and holds only transactions of amount > 0 appends that block in that call,
\* whatever became of the candidates submitted before.
C21_LaterCandidateAppended ==
    ( /\ IsRound
      /\ \E k \in 1..Len(validators) : validators[k].reputation > 0
      /\ poc_call.block.index > 0
      /\ poc_call.block.previous_hash = Last(poc_call.chain_before).hash
      /\ poc_call.block.hash = CalculateHash(poc_call.block)
      /\ \A i \in 1..Len(poc_call.block.transactions) :
            poc_call.block.transactions[i].amount > 0 )
    => \E i \in 1..Len(poc_call.log) :
            /\ poc_call.log[i].cand = Len(RoundPending)
            /\ poc_call.log[i].kind = "append"

IsPrefix(s, t) == Len(s) <= Len(t) /\ SubSeq(t, 1, Len(s)) = s

\* C22: every operation of the engine (process_new_block with any outcome,
\* add_validator, remove_validator, update_validator_reputation) leaves the
\* chain it found as a prefix of the chain it leaves: no committed block is
\* removed, moved or changed.
C22_ChainAppendOnly ==
    [][ /\ IsPrefix(blockchain, blockchain')
        /\ poc_call'.op # "process_new_block" => blockchain' = blockchain
      ]_vars

\* A round that appended a block and then returned the rejection.
C22_Witness ==
    /\ IsRound
    /\ poc_call.result = "Rejected"
    /\ Len(poc_call.chain_before) = 2
    /\ Len(blockchain) = 3
    /\ IsPrefix(poc_call.chain_before, blockchain)

(***************************************************************************)
(* Claims on the governance store                                          *)
(***************************************************************************)
\* W_yes / W > 0.5 as the claims state it: the quotient of the two sums, with
\* the f64 reading of a zero divisor.
AboveHalf(w_yes, w) ==
    \/ w > 0 /\ 2 * w_yes > w
    \/ w < 0 /\ 2 * w_yes < w
    \/ w = 0 /\ w_yes > 0

WasFinalizedToPass(p) ==
    /\ lifecycle[p].finalized_at # <<>>
    /\ lifecycle[p].finalized_at[1] >= proposals[p].voting_ends_at
    /\ TotalVotes(votes[p]) >= proposals[p].required_quorum
    /\ AboveHalf(VotesInFavor(votes[p]), TotalVotes(votes[p]))

\* C6 (as stated): every stored proposal that is Passed or Executed was
\* finalized at a time >= voting_ends_at with W >= required_quorum and
\* W_yes / W > 0.5.
C6_PassedWasFinalized ==
    \A p \in DOMAIN proposals :
        proposals[p].status \in {"Passed", "Executed"} => WasFinalizedToPass(p)

\* C6 (amended): every stored proposal that was stored with status Active and
\* is now Passed or Executed was finalized at a time >= voting_ends_at with
\* W >= required_quorum and W_yes / W > 0.5.
C6_ActivePassedWasFinalized ==
    \A p \in DOMAIN proposals :
        ( /\ lifecycle[p].created_as = "Active"
          /\ proposals[p].status \in {"Passed", "Executed"} )
        => WasFinalizedToPass(p)

C6_Witness ==
    \E p \in DOMAIN proposals :
        /\ lifecycle[p].created_as = "Active"
        /\ proposals[p].status = "Executed"
        /\ Len(votes[p]) = 2

AllowedTransitions ==
    { <<"Active", "Passed">>, <<"Active", "Rejected">>, <<"Passed", "Executed">> }

\* C7: a stored proposal stays stored and its status changes only along
\* Active -> Passed, Active -> Rejected, Passed -> Executed; mark_as_executed
\* succeeds only on a proposal whose status is Passed.
C7_StatusLifecycle ==
    [][ /\ \A p \in DOMAIN proposals :
              /\ p \in DOMAIN proposals'
              /\ \/ proposals'[p].status = proposals[p].status
                 \/ <<proposals[p].status, proposals'[p].status>> \in AllowedTransitions
        /\ (gov_call'.op = "mark_as_executed" /\ gov_call'.result = "Ok")
              => StatusOf(gov_call'.proposal_id) = "Passed"
      ]_vars

C7_Witness ==
    /\ gov_call.op = "mark_as_executed"
    /\ gov_call.result = "Ok"
    /\ lifecycle[gov_call.proposal_id].finalized_at # <<>>
    /\ proposals[gov_call.proposal_id].status = "Executed"

\* C8: a vote by a voter who has not voted yet, on an Active proposal whose
\* voting window has already closed, is accepted.
C8_VoteAfterWindowAccepted ==
    ( /\ gov_call.op = "vote_on_proposal"
      /\ gov_call.status_before = "Active"
      /\ now > proposals[gov_call.proposal_id].voting_ends_at
      /\ gov_call.result # "Ok" )
    => HasVoted(votes[gov_call.proposal_id], gov_call.voter)

C10_FinalizeOutcome ==
    gov_call.op = "finalize_proposal" =>
        LET id == gov_call.proposal_id
            w == TotalVotes(votes[id])
            w_yes == VotesInFavor(votes[id])
            expected ==
                IF w < proposals[id].required_quorum THEN "Rejected"
                ELSE IF AboveHalf(w_yes, w) THEN "Passed"
                ELSE "Rejected"
        IN  IF gov_call.status_before = "Active"
               /\ now >= proposals[id].voting_ends_at
            THEN /\ gov_call.result = expected
                 /\ proposals[id].status = expected
            ELSE /\ gov_call.result \notin Statuses
                 /\ StatusOf(id) = gov_call.status_before

C10_Witness ==
    /\ gov_call.op = "finalize_proposal"
    /\ gov_call.status_before = "Active"
    /\ gov_call.result = "Rejected"
    /\ TotalVotes(votes[gov_call.proposal_id]) > 0
    /\ TotalVotes(votes[gov_call.proposal_id])
          >= proposals[gov_call.proposal_id].required_quorum
    /\ 2 * VotesInFavor(votes[gov_call.proposal_id])
          = TotalVotes(votes[gov_call.proposal_id])

VotesOf(p, voter) == { i \in 1..Len(votes[p]) : votes[p][i].voter = voter }

\* C11: a proposal's vote list holds at most one vote per voter: a vote by a
\* voter who already voted on the proposal fails, whatever its in_favor and
\* weight, and a vote that succeeds is the voter's only one.
C11_OneVotePerVoter ==
    /\ \A p \in DOMAIN votes : \A voter \in Voters :
            Cardinality(VotesOf(p, voter)) <= 1
    /\ (gov_call.op = "vote_on_proposal" /\ gov_call.result = "AlreadyVoted")
            => Cardinality(VotesOf(gov_call.proposal_id, gov_call.voter)) = 1

C11_Witness ==
    /\ gov_call.op = "vote_on_proposal"
    /\ gov_call.result = "AlreadyVoted"
    /\ Len(votes[gov_call.proposal_id]) = 2

GovOps == {"create_proposal", "vote_on_proposal", "finalize_proposal", "mark_as_executed"}

IsGovError(call) == call.op \in GovOps /\ call.result \notin {"Ok"} \cup Statuses

\* C12: a governance operation that returns an error leaves the store as it
\* was: the proposal map with every proposal's fields and every vote list.
C12_ErrorsLeaveStore ==
    [][ IsGovError(gov_call') => (proposals' = proposals /\ votes' = votes) ]_vars

C12_Witness ==
    /\ gov_call.op = "create_proposal"
    /\ gov_call.result = "ProposalIdExists"
    /\ Len(votes[gov_call.proposal_id]) = 2
    /\ proposals[gov_call.proposal_id].status = "Rejected"

\* C23: a finalize_proposal that decides a proposal with no votes or with
\* votes of weight zero only (W = 0, W_yes / W is 0/0) makes it Rejected, not
\* Passed, whatever required_quorum is, a required_quorum <= 0 included.
C23_ZeroWeightRejected ==
    ( /\ gov_call.op = "finalize_proposal"
      /\ gov_call.status_before = "Active"
      /\ gov_call.result \in Statuses
      /\ \A i \in 1..Len(votes[gov_call.proposal_id]) :
            votes[gov_call.proposal_id][i].weight = 0 )
    => /\ gov_call.result = "Rejected"
       /\ proposals[gov_call.proposal_id].status = "Rejected"

C23_Witness ==
    /\ gov_call.op = "finalize_proposal"
    /\ gov_call.result = "Rejected"
    /\ proposals[gov_call.proposal_id].required_quorum < 0
    /\ Len(votes[gov_call.proposal_id]) = 2
    /\ \A i \in 1..2 :
          /\ votes[gov_call.proposal_id][i].weight = 0
          /\ votes[gov_call.proposal_id][i].in_favor

(***************************************************************************)
(* Claims on the transaction validator                                     *)
(***************************************************************************)
\* The first check of the documented order that the transaction fails.
FirstFailing(tx, chain, current_time) ==
    IF \E b \in 1..Len(chain) : \E i \in 1..Len(chain[b].transactions) :
            chain[b].transactions[i] = tx
    THEN "double_spend"
    ELSE IF tx.amount <= 0 THEN "amount"
    ELSE IF GetBalance(chain, tx.from) < tx.amount + tx.fee THEN "balance"
    ELSE IF tx.signature # "valid" THEN "signature"
    ELSE IF ~(current_time - 3600 <= tx.timestamp /\ tx.timestamp <= current_time)
    THEN "timestamp"
    ELSE "none"

\* C17: validate_transaction returns the error of the first failing check in
\* the order double spend (Blockchain), amount <= 0 (Currency), balance <
\* amount + fee (Currency), signature (Identity), timestamp outside
\* now - 3600 <= timestamp <= now (Blockchain), returns Ok exactly when all
\* five pass, and leaves the ledger as it was.
C17_FirstFailingCheck ==
    tv_call.op = "validate_transaction" =>
        LET check == FirstFailing(tv_call.transaction, tv_call.chain_before,
                                  tv_call.current_time)
            result == tv_call.result
        IN  /\ tv_chain = tv_call.chain_before
            /\ (result = TvOk) <=> (check = "none")
            /\ check = "double_spend" =>
                    result = TvErr("Blockchain", "Double spend detected")
            /\ check = "amount" =>
                    result = TvErr("Currency", "Invalid currency or amount")
            /\ check = "balance" =>
                    result = TvErr("Currency", "Insufficient balance")
            /\ check = "signature" => result.kind = "Identity"
            /\ check = "timestamp" =>
                    result = TvErr("Blockchain", "Transaction timestamp is not valid")

\* A transfer that overdraws the account, is badly signed and is dated in the
\* future reports the balance only.
C17_Witness ==
    /\ tv_call.op = "validate_transaction"
    /\ tv_call.result = TvErr("Currency", "Insufficient balance")
    /\ tv_call.transaction.signature = "invalid"
    /\ tv_call.transaction.timestamp > tv_call.current_time
    /\ GetBalance(tv_chain, "Alice") = 100

====
